---- MODULE Spec2Model ----
(***************************************************************************)
(* Model of Structural_patterns/composite_example.py: the expression tree  *)
(* built from Number (leaf) and PlusOperation (composite) objects and its  *)
(* recursive get_value ("evaluate" in the specification).                  *)
(*                                                                         *)
(* Objects live in a heap, `nodes`; an object's identity is its index.     *)
(* get_value runs on an explicit interpreter call stack, one frame per     *)
(* active method call, so that the order of the recursive calls, the       *)
(* visits and the termination of the walk are visible as steps.            *)
(* Values are Python ints (unbounded, exact addition).                     *)
(*                                                                         *)
(* The other examples of the repository (singleton, adapter, decorator,    *)
(* abstract factory, builder, prototype) are separate programs; each has   *)
(* its own specification over a second heap, `objs`, the class attributes  *)
(* `classvars`, the call frames `frames` and the values handed back to the *)
(* driver, `results`.                                                      *)
(***************************************************************************)
EXTENDS Integers, Sequences, FiniteSets

\* ------------------------------------------------------------------ bounds
MaxNodes == 4       \* objects the driver constructs in the general model
MaxVal == 2         \* leaf values of the general model are 1..MaxVal
MaxLeaf == 3        \* leaf values of the example model are 1..MaxLeaf
NumThreads == 2     \* threads that evaluate one shared tree
MaxCalls == 6       \* get_instance calls of the singleton driver
MaxDim == 4         \* width and height of a square rock are 1..MaxDim
MaxRadius == 11     \* radii of round rocks and holes are 1..MaxRadius
Scale == 1024       \* a float radius is kept to the nearest 1/Scale
MaxOps == 3         \* color operators the decorator driver constructs
MaxColors == 4      \* Color objects in the decorator heap
MaxComp == 1        \* r, g, b of the color the driver constructs are 1..MaxComp

Values == 1..MaxVal
LeafValues == 1..MaxLeaf

VARIABLES
    nodes,      \* the heap: nodes[i] is the attribute dict (plus class) of object i
    stack,      \* interpreter call stack of get_value frames, top is the last
    ret,        \* <<>>, or <<[node, value]>> when the driver's last statement was a
                \* get_value call that has returned
    prev,       \* <<>>, or <<value>> when the statement before the current (or last)
                \* call was a get_value call on the same object: what it returned
    trace,      \* events of the driver's current (or last) get_value call, in order
    error,      \* "none", or the exception that ended the program
    objs,       \* heap of the other examples: objs[i] is the attribute dict (plus class) of object i
    classvars,  \* class attributes (Singleton.instance and the like), by class name
    frames,     \* running method calls of the other examples (or of the threads)
    results     \* what finished calls handed back to the driver, oldest first

compositeVars == <<nodes, stack, ret, prev, trace, error>>
otherVars == <<objs, classvars, frames, results>>
vars == <<nodes, stack, ret, prev, trace, error, objs, classvars, frames, results>>

\* The other examples have not run.
OthersIdle ==
    /\ objs = <<>>
    /\ classvars = <<>>
    /\ frames = <<>>
    /\ results = <<>>

\* The expression example has not run.
CompositeIdle ==
    /\ nodes = <<>>
    /\ stack = <<>>
    /\ ret = <<>>
    /\ prev = <<>>
    /\ trace = <<>>
    /\ error = "none"

\* ------------------------------------------------------------ the classes
\* Number.__init__: self.value = value
NumberInit(value) == [cls |-> "Number", value |-> value]

OperationInit_self(self, ex1, ex2) == [cls |-> "PlusOperation", ex1 |-> self, ex2 |-> ex2]

\* Operation.__init__ (inherited by PlusOperation): self.ex1 = ex1; self.ex2 = ex2
OperationInit(self, ex1, ex2) == [cls |-> "PlusOperation", ex1 |-> ex1, ex2 |-> ex2]

Resolve_unoverridden(cls) ==
    CASE cls = "Number" -> "Number"
      [] OTHER -> "Expression"

\* Which class supplies get_value for an object of class cls (method
\* resolution order). Expression.get_value is the abstract one that raises.
Resolve(cls) ==
    CASE cls = "Number" -> "Number"
      [] cls = "PlusOperation" -> "PlusOperation"
      [] cls = "MinusOperation" -> "MinusOperation"
      [] OTHER -> "Expression"

\* First instruction of the resolved method body.
Entry(method) ==
    CASE method = "Number" -> "value"
      [] method = "PlusOperation" -> "ex1"
      [] method = "MinusOperation" -> "minus_ex1"
      [] OTHER -> "raise"

Frame(self) == [self |-> self, pc |-> Entry(Resolve(nodes[self].cls)), ops |-> <<>>]

Event(ev, node) == [ev |-> ev, node |-> node]

Top == stack[Len(stack)]

Ids == 1..Len(nodes)

\* ------------------------------------------------------------------- Init
Init ==
    /\ nodes = <<>>
    /\ stack = <<>>
    /\ ret = <<>>
    /\ prev = <<>>
    /\ trace = <<>>
    /\ error = "none"
    /\ OthersIdle

\* The driver is between two statements.
Idle == stack = <<>> /\ error = "none"

\* ----------------------------------------------------------- construction
\* Number(value)
NewNumber(value) ==
    /\ Idle
    /\ nodes' = Append(nodes, NumberInit(value))
    /\ ret' = <<>>
    /\ prev' = <<>>
    /\ trace' = <<>>
    /\ UNCHANGED <<stack, error>>
    /\ UNCHANGED otherVars

\* PlusOperation(ex1, ex2): the arguments are references to objects that exist
NewPlusOperation(ex1, ex2) ==
    /\ Idle
    /\ nodes' = Append(nodes, OperationInit(Len(nodes) + 1, ex1, ex2))
    /\ ret' = <<>>
    /\ prev' = <<>>
    /\ trace' = <<>>
    /\ UNCHANGED <<stack, error>>
    /\ UNCHANGED otherVars

\* ------------------------------------------------------------- evaluation
\* Calling get_value on object n from a caller whose frames are `below`.
\* The abstract Expression.get_value raises at once; nothing catches it.
Invoke(below, n) ==
    IF Resolve(nodes[n].cls) = "Expression"
    THEN /\ stack' = <<>>
         /\ error' = "NotImplementedError"
    ELSE /\ stack' = Append(below, Frame(n))
         /\ error' = "none"

\* `return value` from the top frame: the value goes on the caller's operand
\* stack, or to the driver when the frame was the top-level call.
Return(value) ==
    IF Len(stack) = 1
    THEN /\ stack' = <<>>
         /\ ret' = <<[node |-> Top.self, value |-> value]>>
    ELSE /\ stack' = [SubSeq(stack, 1, Len(stack) - 1) EXCEPT
                         ![Len(stack) - 1].ops = Append(@, value)]
         /\ ret' = ret

\* The child a PlusOperation frame evaluates at pc: `self.ex1` is the left
\* operand of the +, `self.ex2` the right one.
Operand_again(self, pc) == nodes[self].ex1

Operand_swapped(self, pc) == IF pc = "ex1" THEN nodes[self].ex2 ELSE nodes[self].ex1

Operand(self, pc) == IF pc = "ex1" THEN nodes[self].ex1 ELSE nodes[self].ex2

\* the driver: expression.get_value()
Call(n) ==
    /\ Idle
    /\ Invoke(<<>>, n)
    /\ prev' = IF ret # <<>> /\ ret[1].node = n THEN <<ret[1].value>> ELSE <<>>
    /\ ret' = <<>>
    /\ trace' = <<Event("call", n)>>
    /\ UNCHANGED nodes
    /\ UNCHANGED otherVars

Number_get_value_off ==
    /\ stack # <<>>
    /\ Top.pc = "value"
    /\ Return(nodes[Top.self].value + 1)
    /\ trace' = Append(trace, Event("return", Top.self))
    /\ UNCHANGED <<nodes, prev, error>>
    /\ UNCHANGED otherVars

Number_get_value_consuming ==
    /\ stack # <<>>
    /\ Top.pc = "value"
    /\ Return(nodes[Top.self].value)
    /\ nodes' = [nodes EXCEPT ![Top.self].value = 0]
    /\ trace' = Append(trace, Event("return", Top.self))
    /\ UNCHANGED <<prev, error>>
    /\ UNCHANGED otherVars

\* Number.get_value: return self.value
Number_get_value ==
    /\ stack # <<>>
    /\ Top.pc = "value"
    /\ Return(nodes[Top.self].value)
    /\ trace' = Append(trace, Event("return", Top.self))
    /\ UNCHANGED <<nodes, prev, error>>
    /\ UNCHANGED otherVars

\* PlusOperation.get_value, left operand: self.ex1.get_value()
PlusOperation_get_value_ex1 ==
    /\ stack # <<>>
    /\ Top.pc = "ex1"
    /\ Invoke([stack EXCEPT ![Len(stack)].pc = "ex2"], Operand(Top.self, "ex1"))
    /\ trace' = Append(trace, Event("call", Operand(Top.self, "ex1")))
    /\ UNCHANGED <<nodes, ret, prev>>
    /\ UNCHANGED otherVars

\* PlusOperation.get_value, right operand: self.ex2.get_value()
PlusOperation_get_value_ex2 ==
    /\ stack # <<>>
    /\ Top.pc = "ex2"
    /\ Len(Top.ops) = 1
    /\ Invoke([stack EXCEPT ![Len(stack)].pc = "add"], Operand(Top.self, "ex2"))
    /\ trace' = Append(trace, Event("call", Operand(Top.self, "ex2")))
    /\ UNCHANGED <<nodes, ret, prev>>
    /\ UNCHANGED otherVars

PlusOperation_get_value_add_minus ==
    /\ stack # <<>>
    /\ Top.pc = "add"
    /\ Len(Top.ops) = 2
    /\ Return(Top.ops[1] - Top.ops[2])
    /\ trace' = trace \o <<Event("add", Top.self), Event("return", Top.self)>>
    /\ UNCHANGED <<nodes, prev, error>>
    /\ UNCHANGED otherVars

PlusOperation_get_value_add_left ==
    /\ stack # <<>>
    /\ Top.pc = "add"
    /\ Len(Top.ops) = 2
    /\ Return(Top.ops[1])
    /\ trace' = trace \o <<Event("add", Top.self), Event("return", Top.self)>>
    /\ UNCHANGED <<nodes, prev, error>>
    /\ UNCHANGED otherVars

PlusOperation_get_value_add_caching ==
    /\ stack # <<>>
    /\ Top.pc = "add"
    /\ Len(Top.ops) = 2
    /\ Return(Top.ops[1] + Top.ops[2])
    /\ nodes' = [nodes EXCEPT ![Top.self] =
                     [cls |-> @.cls, ex1 |-> @.ex1, ex2 |-> @.ex2, value |-> Top.ops[1] + Top.ops[2]]]
    /\ trace' = trace \o <<Event("add", Top.self), Event("return", Top.self)>>
    /\ UNCHANGED <<prev, error>>
    /\ UNCHANGED otherVars

\* PlusOperation.get_value: return <left> + <right>
PlusOperation_get_value_add ==
    /\ stack # <<>>
    /\ Top.pc = "add"
    /\ Len(Top.ops) = 2
    /\ Return(Top.ops[1] + Top.ops[2])
    /\ trace' = trace \o <<Event("add", Top.self), Event("return", Top.self)>>
    /\ UNCHANGED <<nodes, prev, error>>
    /\ UNCHANGED otherVars

Run ==
    \/ Number_get_value
    \/ PlusOperation_get_value_ex1
    \/ PlusOperation_get_value_ex2
    \/ PlusOperation_get_value_add

\* The general driver: any constructor call on any existing objects, any
\* get_value call, in any order.
Next ==
    \/ \E value \in Values : Len(nodes) < MaxNodes /\ NewNumber(value)
    \/ \E ex1 \in Ids, ex2 \in Ids : Len(nodes) < MaxNodes /\ NewPlusOperation(ex1, ex2)
    \/ \E n \in Ids : Call(n)
    \/ Run

Spec == Init /\ [][Next]_vars

\* get_value is a plain synchronous call chain: a started call keeps running.
FairSpec == Spec /\ WF_vars(Run)

\* The driver of the usage example: three leaves, then composites wrapping
\* previously built subtrees that no composite holds yet, then get_value.
HasParent(n) == \E p \in Ids : nodes[p].cls # "Number" /\ n \in {nodes[p].ex1, nodes[p].ex2}

Roots == {n \in Ids : ~HasParent(n)}

InitExample ==
    /\ nodes \in {<<NumberInit(a), NumberInit(b), NumberInit(c)>> : a, b, c \in LeafValues}
    /\ stack = <<>>
    /\ ret = <<>>
    /\ prev = <<>>
    /\ trace = <<>>
    /\ error = "none"
    /\ OthersIdle

NextExample ==
    \/ \E ex1 \in Roots, ex2 \in Roots : ex1 # ex2 /\ NewPlusOperation(ex1, ex2)
    \/ \E n \in Ids : Call(n)
    \/ Run

SpecExample == InitExample /\ [][NextExample]_vars

\* --------------------------------------------- a further composite variant
\* MinusOperation(Operation): a new subclass next to PlusOperation, with
\* get_value returning self.ex1.get_value() - self.ex2.get_value(). Number,
\* PlusOperation, Invoke and Return above are used as they are.
MinusOperationInit(self, ex1, ex2) == [cls |-> "MinusOperation", ex1 |-> ex1, ex2 |-> ex2]

NewMinusOperation(ex1, ex2) ==
    /\ Idle
    /\ nodes' = Append(nodes, MinusOperationInit(Len(nodes) + 1, ex1, ex2))
    /\ ret' = <<>>
    /\ prev' = <<>>
    /\ trace' = <<>>
    /\ UNCHANGED <<stack, error>>
    /\ UNCHANGED otherVars

MinusOperation_get_value_ex1 ==
    /\ stack # <<>>
    /\ Top.pc = "minus_ex1"
    /\ Invoke([stack EXCEPT ![Len(stack)].pc = "minus_ex2"], nodes[Top.self].ex1)
    /\ trace' = Append(trace, Event("call", nodes[Top.self].ex1))
    /\ UNCHANGED <<nodes, ret, prev>>
    /\ UNCHANGED otherVars

MinusOperation_get_value_ex2 ==
    /\ stack # <<>>
    /\ Top.pc = "minus_ex2"
    /\ Len(Top.ops) = 1
    /\ Invoke([stack EXCEPT ![Len(stack)].pc = "minus"], nodes[Top.self].ex2)
    /\ trace' = Append(trace, Event("call", nodes[Top.self].ex2))
    /\ UNCHANGED <<nodes, ret, prev>>
    /\ UNCHANGED otherVars

MinusOperation_get_value_minus ==
    /\ stack # <<>>
    /\ Top.pc = "minus"
    /\ Len(Top.ops) = 2
    /\ Return(Top.ops[1] - Top.ops[2])
    /\ trace' = trace \o <<Event("minus", Top.self), Event("return", Top.self)>>
    /\ UNCHANGED <<nodes, prev, error>>
    /\ UNCHANGED otherVars

\* Leaf values of the mixed example Plus(Number(5), Minus(Number(3), Number(1))).
MixedLeafValues == {1, 3, 5}

InitMixed ==
    /\ nodes \in {<<NumberInit(a), NumberInit(b), NumberInit(c)>> : a, b, c \in MixedLeafValues}
    /\ stack = <<>>
    /\ ret = <<>>
    /\ prev = <<>>
    /\ trace = <<>>
    /\ error = "none"
    /\ OthersIdle

NextMixed ==
    \/ \E ex1 \in Roots, ex2 \in Roots : ex1 # ex2 /\ NewPlusOperation(ex1, ex2)
    \/ \E ex1 \in Roots, ex2 \in Roots : ex1 # ex2 /\ NewMinusOperation(ex1, ex2)
    \/ \E n \in Ids : Call(n)
    \/ Run
    \/ MinusOperation_get_value_ex1
    \/ MinusOperation_get_value_ex2
    \/ MinusOperation_get_value_minus

SpecMixed == InitMixed /\ [][NextMixed]_vars

\* ------------------------------------------------------ abstract classes
AbstractMethods_none(cls) == {}

\* The abstract methods a class has not overridden: Expression declares
\* get_value with @abstractmethod, Operation inherits it without a body.
AbstractMethods(cls) == IF Resolve(cls) = "Expression" THEN {"get_value"} ELSE {}

\* cls(...): ABCMeta refuses to instantiate a class that still has abstract
\* methods (TypeError, which nothing catches); otherwise the object is built.
Instantiate(object) ==
    IF AbstractMethods(object.cls) # {}
    THEN /\ error' = "TypeError"
         /\ UNCHANGED <<nodes, ret, prev, trace>>
    ELSE /\ nodes' = Append(nodes, object)
         /\ ret' = <<>>
         /\ prev' = <<>>
         /\ trace' = <<>>
         /\ error' = "none"

\* Expression()
NewExpression ==
    /\ Idle
    /\ Len(nodes) < MaxNodes
    /\ Instantiate([cls |-> "Expression"])
    /\ UNCHANGED stack
    /\ UNCHANGED otherVars

\* Operation(ex1, ex2)
NewOperation(ex1, ex2) ==
    /\ Idle
    /\ Len(nodes) < MaxNodes
    /\ Instantiate([cls |-> "Operation", ex1 |-> ex1, ex2 |-> ex2])
    /\ UNCHANGED stack
    /\ UNCHANGED otherVars

\* The general driver, which also tries the two abstract classes.
NextAbstract ==
    \/ \E value \in Values : Len(nodes) < MaxNodes /\ NewNumber(value)
    \/ \E ex1 \in Ids, ex2 \in Ids : Len(nodes) < MaxNodes /\ NewPlusOperation(ex1, ex2)
    \/ NewExpression
    \/ \E ex1 \in Ids, ex2 \in Ids : NewOperation(ex1, ex2)
    \/ \E n \in Ids : Call(n)
    \/ Run

SpecAbstract == Init /\ [][NextAbstract]_vars

\* ---------------------------------------------- one tree, several threads
\* Each thread runs get_value on its own interpreter stack, frames[t]; the
\* threads interleave between any two steps. results[t] is what the last
\* finished call of thread t returned.
Threads == 1..NumThreads

TTop(t) == frames[t][Len(frames[t])]

\* The stack and result of a thread after `return value` from its top frame.
TReturn(t, value) ==
    IF Len(frames[t]) = 1
    THEN /\ frames' = [frames EXCEPT ![t] = <<>>]
         /\ results' = [results EXCEPT ![t] = <<[node |-> TTop(t).self, value |-> value]>>]
    ELSE /\ frames' = [frames EXCEPT ![t] =
                          [SubSeq(@, 1, Len(@) - 1) EXCEPT ![Len(@) - 1].ops = Append(@, value)]]
         /\ results' = results

\* thread t: n.get_value()
TCall(t, n) ==
    /\ frames[t] = <<>>
    /\ frames' = [frames EXCEPT ![t] = <<Frame(n)>>]
    /\ results' = [results EXCEPT ![t] = <<>>]
    /\ UNCHANGED <<compositeVars, objs, classvars>>

TNumber_get_value_consuming(t) ==
    /\ frames[t] # <<>>
    /\ TTop(t).pc = "value"
    /\ TReturn(t, nodes[TTop(t).self].value)
    /\ nodes' = [nodes EXCEPT ![TTop(t).self].value = 0]
    /\ UNCHANGED <<stack, ret, prev, trace, error, objs, classvars>>

\* thread t, Number.get_value: return self.value
TNumber_get_value(t) ==
    /\ frames[t] # <<>>
    /\ TTop(t).pc = "value"
    /\ TReturn(t, nodes[TTop(t).self].value)
    /\ UNCHANGED <<compositeVars, objs, classvars>>

\* thread t, PlusOperation.get_value: self.ex1.get_value(), then
\* self.ex2.get_value()
TPlusOperation_get_value_call(t) ==
    /\ frames[t] # <<>>
    /\ TTop(t).pc \in {"ex1", "ex2"}
    /\ Len(TTop(t).ops) = (IF TTop(t).pc = "ex1" THEN 0 ELSE 1)
    /\ frames' = [frames EXCEPT ![t] =
                     Append([@ EXCEPT ![Len(@)].pc = IF @ = "ex1" THEN "ex2" ELSE "add"],
                            Frame(Operand(TTop(t).self, TTop(t).pc)))]
    /\ UNCHANGED <<compositeVars, objs, classvars, results>>

\* thread t, PlusOperation.get_value: return <left> + <right>
TPlusOperation_get_value_add(t) ==
    /\ frames[t] # <<>>
    /\ TTop(t).pc = "add"
    /\ Len(TTop(t).ops) = 2
    /\ TReturn(t, TTop(t).ops[1] + TTop(t).ops[2])
    /\ UNCHANGED <<compositeVars, objs, classvars>>

\* The tree of the usage example, built before the threads start.
InitShared ==
    /\ nodes \in {<<NumberInit(a), NumberInit(b), NumberInit(c),
                    OperationInit(4, 1, 2), OperationInit(5, 4, 3)>> : a, b, c \in Values}
    /\ stack = <<>>
    /\ ret = <<>>
    /\ prev = <<>>
    /\ trace = <<>>
    /\ error = "none"
    /\ objs = <<>>
    /\ classvars = <<>>
    /\ frames = [t \in Threads |-> <<>>]
    /\ results = [t \in Threads |-> <<>>]

NextShared ==
    \/ \E t \in Threads, n \in Ids : TCall(t, n)
    \/ \E t \in Threads : TNumber_get_value(t)
    \/ \E t \in Threads : TPlusOperation_get_value_call(t)
    \/ \E t \in Threads : TPlusOperation_get_value_add(t)

SpecShared == InitShared /\ [][NextShared]_vars

\* --------------------------------------------------------------- singleton
\* singleton_example.py and the singleton part of creation_car_project.py.
\* classvars[c] is the entry `instance` of the class dict of c: <<>> when c
\* has no such entry of its own, else <<None>> or <<the object>>.
None == 0

SingletonClasses == {"Singleton", "VehicleFactoryManager"}

\* class VehicleFactoryManager(Singleton)
Base(cls) == "Singleton"

\* cls.instance: the class's own entry, else the base class's
ClassInstance(cls) ==
    IF classvars[cls] # <<>> THEN classvars[cls][1] ELSE classvars[Base(cls)][1]

\* cls(): Singleton.__init__ does nothing; VehicleFactoryManager.__init__
\* sets self.factories = [] on an object that has no such attribute yet.
SingletonNew(cls) ==
    IF cls = "VehicleFactoryManager"
    THEN [cls |-> cls, factories |-> <<>>]
    ELSE [cls |-> cls]

get_instance_always(cls) ==
    /\ Len(results) < MaxCalls
    /\ objs' = Append(objs, SingletonNew(cls))
    /\ classvars' = [classvars EXCEPT ![cls] = <<Len(objs) + 1>>]
    /\ results' = Append(results, [cls |-> cls, obj |-> Len(objs) + 1])
    /\ UNCHANGED <<compositeVars, frames>>

\* cls.get_instance():
\*     if cls.instance is None: cls.instance = cls()
\*     return cls.instance
get_instance(cls) ==
    /\ Len(results) < MaxCalls
    /\ IF ClassInstance(cls) = None
       THEN /\ objs' = Append(objs, SingletonNew(cls))
            /\ classvars' = [classvars EXCEPT ![cls] = <<Len(objs) + 1>>]
            /\ results' = Append(results, [cls |-> cls, obj |-> Len(objs) + 1])
       ELSE /\ results' = Append(results, [cls |-> cls, obj |-> ClassInstance(cls)])
            /\ UNCHANGED <<objs, classvars>>
    /\ UNCHANGED <<compositeVars, frames>>

\* After the class statements: Singleton.instance = None, and the subclass
\* body defines no `instance` of its own.
InitSingleton ==
    /\ CompositeIdle
    /\ objs = <<>>
    /\ classvars = [c \in SingletonClasses |-> IF c = "Singleton" THEN <<None>> ELSE <<>>]
    /\ frames = <<>>
    /\ results = <<>>

NextSingleton ==
    \/ get_instance("Singleton")
    \/ get_instance("VehicleFactoryManager")

SpecSingleton == InitSingleton /\ [][NextSingleton]_vars

\* ----------------------------------------------------------------- adapter
\* adapter_example.py. A radius is a float; it is kept here as the nearest
\* multiple of 1/Scale, so an integer radius r is r * Scale exactly and a
\* square root is rounded to the nearest representable radius.
Dims == 1..MaxDim
Radii == 1..MaxRadius

FromInt(r) == r * Scale

\* The largest r in lo..hi with r * r <= n.
RECURSIVE FloorSqrt(_, _, _)
FloorSqrt(n, lo, hi) ==
    IF lo >= hi THEN lo
    ELSE LET mid == (lo + hi + 1) \div 2
         IN  IF mid * mid <= n THEN FloorSqrt(n, mid, hi) ELSE FloorSqrt(n, lo, mid - 1)

\* x ** 0.5 for an integer x >= 0, rounded to the nearest 1/Scale
Sqrt(x) ==
    LET n == x * Scale * Scale
        f == FloorSqrt(n, 0, (x + 1) * Scale)
    IN  IF n - f * f <= f THEN f ELSE f + 1

\* RoundRock.__init__ / RoundHole.__init__: self.radius = radius
RoundRockInit(radius) == [cls |-> "RoundRock", radius |-> FromInt(radius)]
RoundHoleInit(radius) == [cls |-> "RoundHole", radius |-> FromInt(radius)]

\* SquareRock.__init__: self.width = width; self.height = height
SquareRockInit(width, height) == [cls |-> "SquareRock", width |-> width, height |-> height]

SquareRockAdapterInit_half(square_rock) ==
    [cls |-> "SquareRockAdapter",
     radius |-> Sqrt(objs[square_rock].height * objs[square_rock].height
                     + objs[square_rock].width * objs[square_rock].width) \div 2,
     square_rock |-> square_rock]

\* SquareRockAdapter.__init__:
\*     radius = (square_rock.height**2 + square_rock.width**2)**0.5
\*     super().__init__(radius); self.square_rock = square_rock
SquareRockAdapterInit(square_rock) ==
    [cls |-> "SquareRockAdapter",
     radius |-> Sqrt(objs[square_rock].height * objs[square_rock].height
                     + objs[square_rock].width * objs[square_rock].width),
     square_rock |-> square_rock]

ObjIds == 1..Len(objs)

\* The driver builds one object of each class, in any order, as __main__ does.
NewRock(object) ==
    /\ \A i \in ObjIds : objs[i].cls # object.cls
    /\ objs' = Append(objs, object)
    /\ results' = <<>>
    /\ UNCHANGED <<compositeVars, classvars, frames>>

\* SquareRockAdapter(square_rock)
NewSquareRockAdapter(square_rock) ==
    /\ objs[square_rock].cls = "SquareRock"
    /\ NewRock(SquareRockAdapterInit(square_rock))

\* RoundHole.does_rock_fit: return rock.radius < self.radius
does_rock_fit(self, rock) ==
    /\ objs[self].cls = "RoundHole"
    /\ objs[rock].cls \in {"RoundRock", "SquareRockAdapter"}
    /\ results' = <<[hole |-> self, rock |-> rock, fits |-> objs[rock].radius < objs[self].radius]>>
    /\ UNCHANGED <<compositeVars, objs, classvars, frames>>

InitAdapter ==
    /\ CompositeIdle
    /\ OthersIdle

NextAdapter ==
    \/ \E radius \in Radii : NewRock(RoundRockInit(radius))
    \/ \E radius \in Radii : NewRock(RoundHoleInit(radius))
    \/ \E width \in Dims, height \in Dims : NewRock(SquareRockInit(width, height))
    \/ \E square_rock \in ObjIds : NewSquareRockAdapter(square_rock)
    \/ \E self \in ObjIds, rock \in ObjIds : does_rock_fit(self, rock)

SpecAdapter == InitAdapter /\ [][NextAdapter]_vars

\* --------------------------------------------------------------- decorator
\* decorator_example.py. Operators and colors are objects of `objs`; an
\* operate call is a frame [self, color, color_1, pc] on `frames`.
Comps == 1..MaxComp

\* Color.__init__
ColorInit(r, g, b) == [cls |-> "Color", r |-> r, g |-> g, b |-> b]

\* ColorOperator.__init__: self.next_operator = next_operator
ColorOperatorInit(cls, next_operator) == [cls |-> cls, next_operator |-> next_operator]

Operators == {i \in ObjIds : objs[i].cls \in {"MakeReder", "MakeGreener"}}
Colors == {i \in ObjIds : objs[i].cls = "Color"}

\* The operators from op to the end of its chain.
RECURSIVE Chain(_)
Chain(op) == IF op = None THEN <<>> ELSE <<op>> \o Chain(objs[op].next_operator)

\* The object the driver's variable `color` refers to.
DriverColor == 1

DecoratorIdle == frames = <<>>

\* MakeReder(next_operator) / MakeGreener(next_operator)
\* The driver builds its operators before the first operate call.
NewOperator(cls, next_operator) ==
    /\ DecoratorIdle
    /\ Cardinality(Colors) = 1
    /\ Cardinality(Operators) < MaxOps
    /\ objs' = Append(objs, ColorOperatorInit(cls, next_operator))
    /\ results' = <<>>
    /\ UNCHANGED <<compositeVars, classvars, frames>>

OperateFrame(self, color) == [self |-> self, color |-> color, color_1 |-> None, pc |-> "copy"]

FTop == frames[Len(frames)]

\* the driver: oper_1.operate(color)
Operate(self, color) ==
    /\ DecoratorIdle
    /\ Cardinality(Colors) + Len(Chain(self)) <= MaxColors
    /\ frames' = <<OperateFrame(self, color)>>
    /\ results' = <<>>
    /\ UNCHANGED <<compositeVars, objs, classvars>>

operate_copy_alias ==
    /\ frames # <<>>
    /\ FTop.pc = "copy"
    /\ objs' = objs
    /\ frames' = [frames EXCEPT ![Len(frames)].color_1 = FTop.color,
                                ![Len(frames)].pc = "increment"]
    /\ UNCHANGED <<compositeVars, classvars, results>>

\* color_1 = color.copy()   (Color.copy: return Color(self.r, self.g, self.b))
operate_copy ==
    /\ frames # <<>>
    /\ FTop.pc = "copy"
    /\ objs' = Append(objs, ColorInit(objs[FTop.color].r, objs[FTop.color].g, objs[FTop.color].b))
    /\ frames' = [frames EXCEPT ![Len(frames)].color_1 = Len(objs) + 1,
                                ![Len(frames)].pc = "increment"]
    /\ UNCHANGED <<compositeVars, classvars, results>>

Incremented_green(cls, color) == [color EXCEPT !.g = @ + 1]

\* MakeReder: color_1.r += 1;  MakeGreener: color_1.g += 1
Incremented(cls, color) ==
    IF cls = "MakeReder" THEN [color EXCEPT !.r = @ + 1] ELSE [color EXCEPT !.g = @ + 1]

operate_increment ==
    /\ frames # <<>>
    /\ FTop.pc = "increment"
    /\ objs' = [objs EXCEPT ![FTop.color_1] = Incremented(objs[FTop.self].cls, @)]
    /\ frames' = [frames EXCEPT ![Len(frames)].pc = "next"]
    /\ UNCHANGED <<compositeVars, classvars, results>>

\* if self.next_operator: color_1 = self.next_operator.operate(color_1)
operate_next ==
    /\ frames # <<>>
    /\ FTop.pc = "next"
    /\ IF objs[FTop.self].next_operator # None
       THEN frames' = Append([frames EXCEPT ![Len(frames)].pc = "assign"],
                             OperateFrame(objs[FTop.self].next_operator, FTop.color_1))
       ELSE frames' = [frames EXCEPT ![Len(frames)].pc = "return"]
    /\ UNCHANGED <<compositeVars, objs, classvars, results>>

\* return color_1: to the caller's `color_1 = ...`, or to the driver
operate_return ==
    /\ frames # <<>>
    /\ FTop.pc = "return"
    /\ IF Len(frames) = 1
       THEN /\ frames' = <<>>
            /\ results' = <<[self |-> FTop.self, color |-> FTop.color, value |-> FTop.color_1]>>
       ELSE /\ frames' = [SubSeq(frames, 1, Len(frames) - 1) EXCEPT
                             ![Len(frames) - 1].color_1 = FTop.color_1,
                             ![Len(frames) - 1].pc = "return"]
            /\ results' = results
    /\ UNCHANGED <<compositeVars, objs, classvars>>

\* color = Color(r, g, b) has been constructed.
InitDecorator ==
    /\ CompositeIdle
    /\ objs \in {<<ColorInit(r, g, b)>> : r, g, b \in Comps}
    /\ classvars = <<>>
    /\ frames = <<>>
    /\ results = <<>>

NextDecorator ==
    \/ \E cls \in {"MakeReder", "MakeGreener"}, next_operator \in Operators \cup {None} :
          NewOperator(cls, next_operator)
    \/ \E self \in Operators : Operate(self, DriverColor)
    \/ operate_copy
    \/ operate_increment
    \/ operate_next
    \/ operate_return

SpecDecorator == InitDecorator /\ [][NextDecorator]_vars

(***************************************************************************)
(* creation_patterns/abstract_factory_example.py: HyundaiFactory builds    *)
(* HyundaiCar and HyundaiWheel objects.  objs is the heap, frames holds    *)
(* the running create_car_with_wheel call, results the calls the driver    *)
(* has made (method, returned object, heap size when the call started,     *)
(* and the methods the call invoked, in order).                            *)
(***************************************************************************)
MaxFactoryCalls == 4

\* The object the driver's variable `factory` refers to.
DriverFactory == 1

\* HyundaiWheel.get_wheel_r: return 28.0
HyundaiWheel_get_wheel_r == 28

\* wheel.get_wheel_r(), resolved on the wheel's class; Wheel.get_wheel_r is
\* abstract and raises NotImplementedError.
get_wheel_r(self) ==
    IF objs[self].cls = "HyundaiWheel" THEN HyundaiWheel_get_wheel_r ELSE None

\* Car.__init__: self.wheel = None
CarInit(cls) == [cls |-> cls, wheel |-> None]

WheelInit(cls) == [cls |-> cls]

\* HyundaiFactory.create_car: return HyundaiCar()
HyundaiFactory_create_car == CarInit("HyundaiCar")

\* HyundaiFactory.create_wheel: return HyundaiWheel()
HyundaiFactory_create_wheel == WheelInit("HyundaiWheel")

Car_set_wheel_skip(car, wheel) == car

\* Car.set_wheel: self.wheel = wheel
Car_set_wheel(car, wheel) == [car EXCEPT !.wheel = wheel]

FactoryIdle == frames = <<>> /\ Len(results) < MaxFactoryCalls

\* the driver: factory.create_car()
create_car ==
    /\ FactoryIdle
    /\ objs' = Append(objs, HyundaiFactory_create_car)
    /\ results' = Append(results, [op |-> "create_car", value |-> Len(objs) + 1,
                                   before |-> Len(objs), log |-> <<>>])
    /\ UNCHANGED <<compositeVars, classvars, frames>>

\* the driver: factory.create_wheel()
create_wheel ==
    /\ FactoryIdle
    /\ objs' = Append(objs, HyundaiFactory_create_wheel)
    /\ results' = Append(results, [op |-> "create_wheel", value |-> Len(objs) + 1,
                                   before |-> Len(objs), log |-> <<>>])
    /\ UNCHANGED <<compositeVars, classvars, frames>>

\* the driver: factory.create_car_with_wheel()
create_car_with_wheel ==
    /\ FactoryIdle
    /\ frames' = <<[self |-> DriverFactory, car |-> None, wheel |-> None,
                    before |-> Len(objs), log |-> <<>>, pc |-> "create_car"]>>
    /\ UNCHANGED <<compositeVars, objs, classvars, results>>

\* car = self.create_car()
create_car_with_wheel_car ==
    /\ frames # <<>>
    /\ frames[1].pc = "create_car"
    /\ objs' = Append(objs, HyundaiFactory_create_car)
    /\ frames' = [frames EXCEPT ![1].car = Len(objs) + 1,
                                ![1].log = Append(@, "create_car"),
                                ![1].pc = "create_wheel"]
    /\ UNCHANGED <<compositeVars, classvars, results>>

\* wheel = self.create_wheel()
create_car_with_wheel_wheel ==
    /\ frames # <<>>
    /\ frames[1].pc = "create_wheel"
    /\ objs' = Append(objs, HyundaiFactory_create_wheel)
    /\ frames' = [frames EXCEPT ![1].wheel = Len(objs) + 1,
                                ![1].log = Append(@, "create_wheel"),
                                ![1].pc = "set_wheel"]
    /\ UNCHANGED <<compositeVars, classvars, results>>

\* car.set_wheel(wheel)
create_car_with_wheel_set ==
    /\ frames # <<>>
    /\ frames[1].pc = "set_wheel"
    /\ objs' = [objs EXCEPT ![frames[1].car] = Car_set_wheel(@, frames[1].wheel)]
    /\ frames' = [frames EXCEPT ![1].log = Append(@, "set_wheel"),
                                ![1].pc = "return"]
    /\ UNCHANGED <<compositeVars, classvars, results>>

\* return car
create_car_with_wheel_return ==
    /\ frames # <<>>
    /\ frames[1].pc = "return"
    /\ frames' = <<>>
    /\ results' = Append(results, [op |-> "create_car_with_wheel", value |-> frames[1].car,
                                   before |-> frames[1].before, log |-> frames[1].log])
    /\ UNCHANGED <<compositeVars, objs, classvars>>

\* factory = HyundaiFactory() has been constructed.
InitFactory ==
    /\ CompositeIdle
    /\ objs = <<[cls |-> "HyundaiFactory"]>>
    /\ classvars = <<>>
    /\ frames = <<>>
    /\ results = <<>>

NextFactory ==
    \/ create_car
    \/ create_wheel
    \/ create_car_with_wheel
    \/ create_car_with_wheel_car
    \/ create_car_with_wheel_wheel
    \/ create_car_with_wheel_set
    \/ create_car_with_wheel_return

SpecFactory == InitFactory /\ [][NextFactory]_vars

(***************************************************************************)
(* creation_patterns/builder_example.py: Home, HomeBuilder and             *)
(* ApartmentDirector.create_home.  objs is the heap, frames holds the      *)
(* running create_home call, results the create_home calls that returned   *)
(* (returned object, heap size when the call started, statements run).     *)
(* Besides create_home the driver constructs homes and builders of its own *)
(* and calls the builders' methods.                                        *)
(***************************************************************************)
MaxHomes == 2
MaxBuilders == 2
MaxRooms == 4

\* for i in range(3)
ApartmentRooms == 3

\* Home.__init__
HomeInit == [cls |-> "Home", roof |-> FALSE, garden |-> TRUE, rooms |-> 0]

\* HomeBuilder.__init__: self.home = home
HomeBuilderInit(home) == [cls |-> "HomeBuilder", home |-> home]

Homes == {i \in ObjIds : objs[i].cls = "Home"}
HomeBuilders == {i \in ObjIds : objs[i].cls = "HomeBuilder"}

\* The builders the driver holds: those not local to the running create_home.
DriverBuilders == {b \in HomeBuilders : frames = <<>> \/ frames[1].builder # b}

Home_add_two_rooms(home) == [home EXCEPT !.rooms = @ + 2]

\* self.home.rooms += 1
Home_add_room(home) == [home EXCEPT !.rooms = @ + 1]

\* self.home.roof = True
Home_add_roof(home) == [home EXCEPT !.roof = TRUE]

\* HomeBuilder.build_room
HomeBuilder_build_room(self) ==
    objs' = [objs EXCEPT ![objs[self].home] = Home_add_room(@)]

\* HomeBuilder.build_roof
HomeBuilder_build_roof(self) ==
    objs' = [objs EXCEPT ![objs[self].home] = Home_add_roof(@)]

BuilderIdle == frames = <<>>

\* the driver: Home()
NewHome ==
    /\ BuilderIdle
    /\ Cardinality(Homes) < MaxHomes
    /\ objs' = Append(objs, HomeInit)
    /\ UNCHANGED <<compositeVars, classvars, frames, results>>

\* the driver: HomeBuilder(home)
NewHomeBuilder(home) ==
    /\ BuilderIdle
    /\ Cardinality(HomeBuilders) < MaxBuilders
    /\ objs' = Append(objs, HomeBuilderInit(home))
    /\ UNCHANGED <<compositeVars, classvars, frames, results>>

\* the driver: builder.build_room()
Driver_build_room(builder) ==
    /\ BuilderIdle
    /\ objs[objs[builder].home].rooms < MaxRooms
    /\ HomeBuilder_build_room(builder)
    /\ UNCHANGED <<compositeVars, classvars, frames, results>>

\* the driver: builder.build_roof()
Driver_build_roof(builder) ==
    /\ BuilderIdle
    /\ HomeBuilder_build_roof(builder)
    /\ UNCHANGED <<compositeVars, classvars, frames, results>>

\* the driver: ApartmentDirector.create_home()
create_home ==
    /\ BuilderIdle
    /\ Cardinality(Homes) < MaxHomes
    /\ frames' = <<[home |-> None, builder |-> None, i |-> 0,
                    before |-> Len(objs), log |-> <<>>, pc |-> "home"]>>
    /\ UNCHANGED <<compositeVars, objs, classvars, results>>

\* home = Home()
create_home_home ==
    /\ frames # <<>>
    /\ frames[1].pc = "home"
    /\ objs' = Append(objs, HomeInit)
    /\ frames' = [frames EXCEPT ![1].home = Len(objs) + 1,
                                ![1].log = Append(@, "Home"),
                                ![1].pc = "builder"]
    /\ UNCHANGED <<compositeVars, classvars, results>>

\* builder = HomeBuilder(home)
create_home_builder ==
    /\ frames # <<>>
    /\ frames[1].pc = "builder"
    /\ objs' = Append(objs, HomeBuilderInit(frames[1].home))
    /\ frames' = [frames EXCEPT ![1].builder = Len(objs) + 1,
                                ![1].pc = "for"]
    /\ UNCHANGED <<compositeVars, classvars, results>>

\* for i in range(3): builder.build_room()
create_home_build_room ==
    /\ frames # <<>>
    /\ frames[1].pc = "for"
    /\ frames[1].i < ApartmentRooms
    /\ HomeBuilder_build_room(frames[1].builder)
    /\ frames' = [frames EXCEPT ![1].i = @ + 1,
                                ![1].log = Append(@, "build_room")]
    /\ UNCHANGED <<compositeVars, classvars, results>>

\* the loop is exhausted: builder.build_roof()
create_home_build_roof ==
    /\ frames # <<>>
    /\ frames[1].pc = "for"
    /\ frames[1].i = ApartmentRooms
    /\ HomeBuilder_build_roof(frames[1].builder)
    /\ frames' = [frames EXCEPT ![1].log = Append(@, "build_roof"),
                                ![1].pc = "return"]
    /\ UNCHANGED <<compositeVars, classvars, results>>

\* return home
create_home_return ==
    /\ frames # <<>>
    /\ frames[1].pc = "return"
    /\ frames' = <<>>
    /\ results' = Append(results, [value |-> frames[1].home, before |-> frames[1].before,
                                   log |-> frames[1].log])
    /\ UNCHANGED <<compositeVars, objs, classvars>>

InitBuilder ==
    /\ CompositeIdle
    /\ objs = <<>>
    /\ classvars = <<>>
    /\ frames = <<>>
    /\ results = <<>>

NextBuilder ==
    \/ NewHome
    \/ \E home \in Homes : NewHomeBuilder(home)
    \/ \E builder \in DriverBuilders : Driver_build_room(builder)
    \/ \E builder \in DriverBuilders : Driver_build_roof(builder)
    \/ create_home
    \/ create_home_home
    \/ create_home_builder
    \/ create_home_build_room
    \/ create_home_build_roof
    \/ create_home_return

SpecBuilder == InitBuilder /\ [][NextBuilder]_vars

(***************************************************************************)
(* creation_patterns/prototype_example.py: Circle and Rectangle with       *)
(* clone.  objs is the heap; results holds the last clone call (receiver,  *)
(* returned object, the receiver's fields when it was called), frames the  *)
(* field assignments the driver has made.  The driver constructs one       *)
(* prototype, clones shapes and assigns to their fields.                   *)
(***************************************************************************)
MaxShapes == 2
MaxCoord == 2
MaxAssign == 1

Coords == 1..MaxCoord

\* Circle.__init__: super().__init__(x, y); self.radius = radius
CircleInit(radius, x, y) == [cls |-> "Circle", x |-> x, y |-> y, radius |-> radius]

\* Rectangle.__init__: super().__init__(x, y); self.height = height; self.width = width
RectangleInit(height, width, x, y) ==
    [cls |-> "Rectangle", x |-> x, y |-> y, height |-> height, width |-> width]

\* Circle.clone: return Circle(self.radius, self.x, self.y)
Circle_clone(self) == CircleInit(objs[self].radius, objs[self].x, objs[self].y)

Rectangle_clone_swapped(self) ==
    RectangleInit(objs[self].width, objs[self].height, objs[self].x, objs[self].y)

\* Rectangle.clone: return Rectangle(self.height, self.width, self.x, self.y)
Rectangle_clone(self) ==
    RectangleInit(objs[self].height, objs[self].width, objs[self].x, objs[self].y)

\* self.clone(), resolved on the receiver's class
clone(self) ==
    IF objs[self].cls = "Circle" THEN Circle_clone(self) ELSE Rectangle_clone(self)

\* The instance attributes of an object.
Fields(o) == DOMAIN objs[o] \ {"cls"}

\* the driver: shape_2 = shape.clone()
Clone(self) ==
    /\ Len(objs) < MaxShapes
    /\ objs' = Append(objs, clone(self))
    /\ results' = <<[self |-> self, value |-> Len(objs) + 1, before |-> objs[self]]>>
    /\ UNCHANGED <<compositeVars, classvars, frames>>

\* the driver: shape.<field> = v
SetField(o, f, v) ==
    /\ Len(frames) < MaxAssign
    /\ objs[o][f] # v
    /\ objs' = [objs EXCEPT ![o][f] = v]
    /\ frames' = Append(frames, <<o, f>>)
    /\ UNCHANGED <<compositeVars, classvars, results>>

\* The prototype has been constructed: Circle(radius, x, y) or
\* Rectangle(height, width, x, y).
InitPrototype ==
    /\ CompositeIdle
    /\ objs \in {<<CircleInit(radius, x, y)>> : radius, x, y \in Coords}
              \cup {<<RectangleInit(p[1], p[2], p[3], p[4])>> : p \in Coords \X Coords \X Coords \X Coords}
    /\ classvars = <<>>
    /\ frames = <<>>
    /\ results = <<>>

NextPrototype ==
    \/ \E self \in ObjIds : Clone(self)
    \/ \E o \in ObjIds : \E f \in Fields(o), v \in Coords : SetField(o, f, v)

SpecPrototype == InitPrototype /\ [][NextPrototype]_vars

\* ------------------------------------------------------------- properties
IsNumber(n) == nodes[n].cls = "Number"
IsPlus(n) == nodes[n].cls = "PlusOperation"

\* The driver's last statement was a get_value call and it has returned.
Returned == ret # <<>>

\* C1: get_value on a leaf Number(v) returns exactly v, to the driver and to
\* a composite that evaluates the leaf as one of its operands.
C1_LeafReturnsValue ==
    /\ (Returned /\ IsNumber(ret[1].node)) => ret[1].value = nodes[ret[1].node].value
    /\ \A i \in 1..Len(stack) :
          IsPlus(stack[i].self) =>
              /\ (Len(stack[i].ops) >= 1 /\ IsNumber(nodes[stack[i].self].ex1))
                     => stack[i].ops[1] = nodes[nodes[stack[i].self].ex1].value
              /\ (Len(stack[i].ops) = 2 /\ IsNumber(nodes[stack[i].self].ex2))
                     => stack[i].ops[2] = nodes[nodes[stack[i].self].ex2].value

C1_Witness ==
    /\ Returned /\ IsNumber(ret[1].node) /\ ret[1].value = MaxVal

\* What get_value returns on object n, by the structure of the expression.
RECURSIVE Eval(_)
Eval(n) == IF IsNumber(n) THEN nodes[n].value
           ELSE Eval(nodes[n].ex1) + Eval(nodes[n].ex2)

\* C2: for a composite C = PlusOperation(A, B), with A and B leaves or
\* composites, C.get_value() equals A.get_value() + B.get_value(): the call
\* on C returns the sum of the two values its own calls on A and B returned,
\* and these are the values of A and of B.
C2_PlusIsSumOfChildren ==
    /\ (Returned /\ IsPlus(ret[1].node))
           => ret[1].value = Eval(nodes[ret[1].node].ex1) + Eval(nodes[ret[1].node].ex2)
    /\ Returned => ret[1].value = Eval(ret[1].node)
    /\ \A i \in 1..Len(stack) :
          /\ Len(stack[i].ops) >= 1 => stack[i].ops[1] = Eval(nodes[stack[i].self].ex1)
          /\ Len(stack[i].ops) = 2 => stack[i].ops[2] = Eval(nodes[stack[i].self].ex2)

\* a composite over a composite and a leaf has returned
C2_Witness ==
    /\ Returned /\ IsPlus(ret[1].node)
    /\ IsPlus(nodes[ret[1].node].ex1) /\ IsNumber(nodes[ret[1].node].ex2)
    /\ ret[1].value = 3 * MaxVal

\* The two nestings of an addition over the leaves 1, 2, 3 of the example model.
LeftNested == Len(nodes) = 5 /\ nodes[4] = OperationInit(4, 1, 2) /\ nodes[5] = OperationInit(5, 4, 3)
RightNested == Len(nodes) = 5 /\ nodes[4] = OperationInit(4, 2, 3) /\ nodes[5] = OperationInit(5, 1, 4)

\* C3: PlusOperation(PlusOperation(Number(a), Number(b)), Number(c)) and
\* PlusOperation(Number(a), PlusOperation(Number(b), Number(c))) both evaluate
\* to a + b + c, and the example (1 + 2) + 3 evaluates to 6.
C3_NestingIrrelevant ==
    (Returned /\ ret[1].node = 5 /\ (LeftNested \/ RightNested)) =>
        /\ ret[1].value = nodes[1].value + nodes[2].value + nodes[3].value
        /\ (LeftNested /\ nodes[1].value = 1 /\ nodes[2].value = 2 /\ nodes[3].value = 3)
               => ret[1].value = 6

C3_Witness ==
    /\ LeftNested /\ nodes[1].value = 1 /\ nodes[2].value = 2 /\ nodes[3].value = 3
    /\ Returned /\ ret[1].node = 5 /\ ret[1].value = 6

\* C4: a get_value call that directly follows a get_value call on the same
\* object returns what that call returned.
C4_RepeatedCallSameResult ==
    (Returned /\ prev # <<>>) => ret[1].value = prev[1]

C4_Witness ==
    /\ Returned /\ prev # <<>> /\ IsPlus(ret[1].node) /\ ret[1].value > 0

\* C5: no step of a get_value call (the call, the nested calls, the returns)
\* changes any object: every leaf value and every ex1/ex2 stays as it was.
C5_GetValueNoSideEffects ==
    [][(stack # <<>> \/ stack' # <<>>) => nodes' = nodes]_vars

C5_Witness ==
    /\ Returned /\ IsPlus(ret[1].node) /\ IsPlus(nodes[ret[1].node].ex2)

\* The driver's last statement is a get_value call, running or finished.
Called == trace # <<>>

\* C6: on every structure the constructors build, a get_value call on any
\* object eventually returns a value to the driver, and no call ever ends in
\* an exception.
C6_GetValueTerminates ==
    /\ [](error = "none")
    /\ (Called ~> Returned)

\* a call on a composite over a composite has returned
C6_Witness ==
    /\ Returned /\ error = "none" /\ IsPlus(ret[1].node)
    /\ IsPlus(nodes[ret[1].node].ex1) /\ Len(trace) > 8

\* The objects of the structure under n, and how often the current call
\* entered get_value on object n.
RECURSIVE Under(_)
Under(n) == IF IsNumber(n) THEN {n}
            ELSE {n} \cup Under(nodes[n].ex1) \cup Under(nodes[n].ex2)

Visits(n) == Cardinality({k \in 1..Len(trace) : trace[k] = Event("call", n)})

Leaves(n) == {m \in Under(n) : IsNumber(m)}
Composites(n) == {m \in Under(n) : IsPlus(m)}

\* C7: when the structure under the called object has n leaves and n-1
\* composites, a finished get_value call has entered each of its 2n-1 objects
\* exactly once and no other object; a call that follows on the same object
\* (prev is set) does the same again, nothing being kept from the first.
C7_EachNodeVisitedOnce ==
    (Returned /\ Cardinality(Composites(ret[1].node)) = Cardinality(Leaves(ret[1].node)) - 1) =>
        /\ \A m \in Ids : Visits(m) = IF m \in Under(ret[1].node) THEN 1 ELSE 0
        /\ Cardinality({k \in 1..Len(trace) : trace[k].ev = "call"})
               = 2 * Cardinality(Leaves(ret[1].node)) - 1

\* the second of two calls on a root with three leaves has finished
C7_Witness ==
    /\ Returned /\ prev # <<>> /\ ret[1].node = 5
    /\ Cardinality(Leaves(5)) = 3 /\ Cardinality(Composites(5)) = 2
    /\ Cardinality({k \in 1..Len(trace) : trace[k].ev = "call"}) = 5

\* The events of a post-order walk of the structure under n.
RECURSIVE PostOrder(_)
PostOrder(n) ==
    IF IsNumber(n) THEN <<Event("call", n), Event("return", n)>>
    ELSE <<Event("call", n)>> \o PostOrder(nodes[n].ex1) \o PostOrder(nodes[n].ex2)
             \o <<Event("add", n), Event("return", n)>>

IsPrefix(s, t) == Len(s) <= Len(t) /\ SubSeq(t, 1, Len(s)) = s

\* C8: a get_value call is a post-order walk: at every moment the events so
\* far are a prefix of call(C), <walk of ex1>, <walk of ex2>, add(C),
\* return(C), nested for every composite C, so that the walk of ex1 is
\* complete before that of ex2 starts and both are complete before C adds;
\* the finished call has produced exactly that walk.
C8_PostOrder ==
    Called =>
        /\ IsPrefix(trace, PostOrder(trace[1].node))
        /\ Returned => trace = PostOrder(ret[1].node)

\* a composite whose right child is a composite is about to add
C8_Witness ==
    /\ stack # <<>> /\ Len(stack) = 1 /\ Top.pc = "add" /\ Len(Top.ops) = 2
    /\ IsNumber(nodes[Top.self].ex1) /\ IsPlus(nodes[Top.self].ex2)

\* C9: no operation changes an object that exists: every step leaves the
\* value of every leaf and the ex1/ex2 of every composite as constructed,
\* and no object disappears.
C9_NodesImmutable ==
    [][/\ Len(nodes') >= Len(nodes)
       /\ \A n \in Ids : nodes'[n] = nodes[n]]_vars

\* a composite that is not the newest object was evaluated twice in a row
C9_Witness ==
    /\ Len(nodes) = MaxNodes /\ Returned /\ prev # <<>>
    /\ IsPlus(ret[1].node) /\ ret[1].node < MaxNodes

\* How many ex1/ex2 references to object n exist.
Parents(n) == Cardinality({p \in Ids : IsPlus(p) /\ nodes[p].ex1 = n})
              + Cardinality({p \in Ids : IsPlus(p) /\ nodes[p].ex2 = n})

\* C10 as stated: every object is the child of at most one composite.
C10_NoSharing == \A n \in Ids : Parents(n) <= 1

\* The objects reachable from n by following ex1/ex2 at least once.
Children(n) == IF IsPlus(n) THEN {nodes[n].ex1, nodes[n].ex2} ELSE {}

RECURSIVE Closure(_, _)
Closure(S, k) == IF k = 0 THEN S
                 ELSE Closure(S \cup UNION {Children(m) : m \in S \cap Ids}, k - 1)

Descendants(n) == Closure(Children(n), Len(nodes))

\* C10, amended: every object is a Number without children or a composite
\* with two children that were constructed before it, so the structure is
\* finite and acyclic (no object is its own descendant); an object may be
\* the child of several composites, or both children of one.
C10_AcyclicFinite ==
    \A p \in Ids :
        /\ nodes[p].cls \in {"Number", "PlusOperation"}
        /\ IsPlus(p) => nodes[p].ex1 \in 1..(p - 1) /\ nodes[p].ex2 \in 1..(p - 1)
        /\ p \notin Descendants(p)

\* a composite over a composite, with a shared object
C10_Witness ==
    \E p \in Ids : /\ IsPlus(p) /\ IsPlus(nodes[p].ex1)
                   /\ \E n \in Ids : Parents(n) >= 2

\* ------------------------------------------------ properties, mixed trees
IsMinus(n) == nodes[n].cls = "MinusOperation"

\* The value of the expression under n when MinusOperation nodes occur.
RECURSIVE EvalMixed(_)
EvalMixed(n) ==
    IF IsNumber(n) THEN nodes[n].value
    ELSE IF IsMinus(n) THEN EvalMixed(nodes[n].ex1) - EvalMixed(nodes[n].ex2)
    ELSE EvalMixed(nodes[n].ex1) + EvalMixed(nodes[n].ex2)

\* Plus(Number(5), Minus(Number(3), Number(1))), the leaves built in the order 5, 3, 1
MixedExample ==
    /\ Len(nodes) = 5
    /\ nodes[1].value = 5 /\ nodes[2].value = 3 /\ nodes[3].value = 1
    /\ nodes[4] = MinusOperationInit(4, 2, 3)
    /\ nodes[5] = OperationInit(5, 1, 4)

\* C11: with a MinusOperation variant added and Number and PlusOperation as
\* they are, a PlusOperation over a MinusOperation subtree still returns the
\* sum of its children's values (the Minus child's being left minus right),
\* and Plus(Number(5), Minus(Number(3), Number(1))) returns 7.
C11_PlusOverMinus ==
    /\ error = "none"
    /\ (Returned /\ IsPlus(ret[1].node)) =>
           ret[1].value = EvalMixed(nodes[ret[1].node].ex1) + EvalMixed(nodes[ret[1].node].ex2)
    /\ (Returned /\ MixedExample /\ ret[1].node = 5) => ret[1].value = 7

C11_Witness ==
    /\ MixedExample /\ Returned /\ ret[1].node = 5 /\ ret[1].value = 7

\* --------------------------------------------- properties, abstract classes
\* C12: Expression and Operation cannot be instantiated, so every object
\* that exists has a concrete get_value and no get_value call, on any object
\* and at any depth, ends in NotImplementedError.
C12_NotImplementedUnreachable ==
    /\ error # "NotImplementedError"
    /\ \A n \in Ids : Resolve(nodes[n].cls) # "Expression"
    /\ \A i \in 1..Len(stack) : stack[i].pc # "raise"

\* a composite was evaluated, then the driver tried an abstract class
C12_Witness ==
    /\ error = "TypeError" /\ Returned /\ IsPlus(ret[1].node)

\* ----------------------------------------------- properties, shared tree
\* C13: whatever the interleaving of the threads' steps, every finished
\* get_value call returned the value of its object (what a call alone
\* returns, C2), and no step of any thread changes the tree.
C13_SharedReadOnly ==
    /\ [](\A t \in Threads :
             results[t] # <<>> => results[t][1].value = Eval(results[t][1].node))
    /\ [][nodes' = nodes]_vars

\* thread 1 has returned from the root while thread 2 is inside the same
\* call, two calls deep
C13_Witness ==
    /\ results[1] # <<>> /\ results[1][1].node = 5
    /\ Len(frames[2]) = 3 /\ frames[2][1].self = 5 /\ frames[2][1].ops = <<>>

\* ------------------------------------------------- properties, singleton
CallsOn(cls) == {i \in 1..Len(results) : results[i].cls = cls}

\* C14: all Singleton.get_instance() calls returned one and the same object,
\* and so did all VehicleFactoryManager.get_instance() calls; the first call
\* on a class with no instance yet creates one, later calls create nothing
\* (there are never more objects than classes), and a class's `instance`,
\* once an object, is never assigned again.
C14_OneInstance ==
    /\ [](\A c \in SingletonClasses : \A i, j \in CallsOn(c) : results[i].obj = results[j].obj)
    /\ [](\A i \in 1..Len(results) : results[i].obj \in 1..Len(objs))
    /\ [](Len(objs) <= Cardinality(SingletonClasses))
    /\ [][\A c \in SingletonClasses :
             (classvars[c] # <<>> /\ classvars[c] # <<None>>) => classvars'[c] = classvars[c]]_vars

\* three calls on Singleton and two on the subclass have returned
C14_Witness ==
    /\ Cardinality(CallsOn("Singleton")) >= 3
    /\ Cardinality(CallsOn("VehicleFactoryManager")) >= 2
    /\ results[1].cls = "VehicleFactoryManager"

\* C20: whatever calls came before, VehicleFactoryManager.get_instance()
\* returns a VehicleFactoryManager (an object with the factories list), and
\* not the object Singleton.get_instance() returns.
C20_SubclassInstance ==
    \A i \in CallsOn("VehicleFactoryManager") :
        /\ objs[results[i].obj].cls = "VehicleFactoryManager"
        /\ \A j \in CallsOn("Singleton") : results[j].obj # results[i].obj

\* --------------------------------------------------- properties, adapter
\* w^2 + h^2 of the square rock an adapter wraps
DiagonalSquared(a) ==
    objs[objs[a].square_rock].width * objs[objs[a].square_rock].width
    + objs[objs[a].square_rock].height * objs[objs[a].square_rock].height

IsExampleRock(a) ==
    /\ objs[a].cls = "SquareRockAdapter"
    /\ objs[objs[a].square_rock].width = 3 /\ objs[objs[a].square_rock].height = 4

LinksOf(op, cls) == Cardinality({k \in 1..Len(Chain(op)) : objs[Chain(op)[k]].cls = cls})

\* MakeGreener(MakeReder(MakeReder())) was applied to Color(1, 1, 1)
DecoratorExample ==
    /\ results # <<>>
    /\ LET c == Chain(results[1].self)
       IN  /\ Len(c) = 3
           /\ objs[c[1]].cls = "MakeGreener" /\ objs[c[2]].cls = "MakeReder" /\ objs[c[3]].cls = "MakeReder"
    /\ objs[results[1].color].r = 1 /\ objs[results[1].color].g = 1 /\ objs[results[1].color].b = 1

\* C16: operate on Color(r, g, b) through a chain with k MakeReder and m
\* MakeGreener links returns a color equal to (r + k, g + m, b): each link's
\* increment is applied once, the blue component is never changed, and the
\* last link (next_operator None) returns what was accumulated; the example
\* chain turns (1, 1, 1) into (3, 2, 1).
C16_ChainIsFold ==
    results # <<>> =>
        /\ objs[results[1].value].cls = "Color"
        /\ objs[results[1].value].r = objs[results[1].color].r + LinksOf(results[1].self, "MakeReder")
        /\ objs[results[1].value].g = objs[results[1].color].g + LinksOf(results[1].self, "MakeGreener")
        /\ objs[results[1].value].b = objs[results[1].color].b
        /\ DecoratorExample =>
              /\ objs[results[1].value].r = 3
              /\ objs[results[1].value].g = 2
              /\ objs[results[1].value].b = 1

C16_Witness ==
    /\ DecoratorExample
    /\ objs[results[1].value].r = 3 /\ objs[results[1].value].g = 2 /\ objs[results[1].value].b = 1

CallIds == 1..Len(results)

\* C17: create_car_with_wheel returns a car created during the call, of the
\* factory's family (HyundaiCar), whose wheel is a HyundaiWheel of radius 28
\* created during the same call; the call ran create_car, create_wheel,
\* set_wheel in that order; a car returned by create_car alone has wheel
\* None; no two calls return the same object and no two cars share a wheel,
\* nor is a fitted wheel one that create_wheel returned to the driver.
C17_CarWithWheel ==
    \A k \in CallIds :
        LET r == results[k]
        IN  /\ r.op = "create_car" =>
                  /\ objs[r.value].cls = "HyundaiCar"
                  /\ objs[r.value].wheel = None
            /\ r.op = "create_car_with_wheel" =>
                  /\ r.value > r.before
                  /\ objs[r.value].cls = "HyundaiCar"
                  /\ objs[r.value].wheel # None
                  /\ objs[r.value].wheel > r.before
                  /\ objs[objs[r.value].wheel].cls = "HyundaiWheel"
                  /\ get_wheel_r(objs[r.value].wheel) = 28
                  /\ r.log = <<"create_car", "create_wheel", "set_wheel">>
                  /\ \A j \in CallIds \ {k} :
                        /\ results[j].value # objs[r.value].wheel
                        /\ results[j].op = "create_car_with_wheel" =>
                              objs[results[j].value].wheel # objs[r.value].wheel
            /\ \A j \in CallIds \ {k} : results[j].value # r.value

\* create_car(), then two create_car_with_wheel() calls, have returned
C17_Witness ==
    /\ Len(results) >= 3
    /\ \E i, j, k \in CallIds :
          /\ i # j
          /\ results[i].op = "create_car_with_wheel"
          /\ results[j].op = "create_car_with_wheel"
          /\ results[k].op = "create_car"
          /\ objs[results[i].value].wheel # None
          /\ objs[results[j].value].wheel # None
          /\ objs[results[k].value].wheel = None

\* Every object but object h is the same after the step.
OnlyChanges(h) ==
    /\ Len(objs') = Len(objs)
    /\ \A i \in ObjIds \ {h} : objs'[i] = objs[i]

BuildRoomStep(b) == Driver_build_room(b) \/ (create_home_build_room /\ frames[1].builder = b)
BuildRoofStep(b) == Driver_build_roof(b) \/ (create_home_build_roof /\ frames[1].builder = b)

C18_Step ==
    /\ create_home_home => objs'[Len(objs')] = [cls |-> "Home", roof |-> FALSE, garden |-> TRUE, rooms |-> 0]
    /\ create_home_return =>
          LET r == results'[Len(results')]
          IN  /\ r.value > r.before
              /\ \A j \in CallIds : results[j].value # r.value
              /\ objs'[r.value] = [cls |-> "Home", roof |-> TRUE, garden |-> TRUE, rooms |-> 3]
              /\ r.log = <<"Home", "build_room", "build_room", "build_room", "build_roof">>
    /\ \A b \in HomeBuilders :
          LET h == objs[b].home
          IN  /\ BuildRoomStep(b) =>
                    /\ objs'[h].rooms = objs[h].rooms + 1
                    /\ objs'[h].roof = objs[h].roof
                    /\ objs'[h].garden = objs[h].garden
                    /\ OnlyChanges(h)
              /\ BuildRoofStep(b) =>
                    /\ objs'[h].roof = TRUE
                    /\ objs'[h].rooms = objs[h].rooms
                    /\ objs'[h].garden = objs[h].garden
                    /\ OnlyChanges(h)

\* C18: create_home returns a Home allocated during the call, returned by no
\* earlier call, with rooms = 3, roof = True, garden = True, built from
\* Home() (rooms 0, roof False, garden True) by three build_room calls and
\* then one build_roof call; every build_room call adds 1 to the rooms of
\* its builder's home and every build_roof call sets its roof to True, each
\* leaving the home's other fields and every other object unchanged.
C18_CreateHome == [][C18_Step]_vars

\* two create_home calls have returned and the driver then added a room to
\* the first home only
C18_Witness ==
    /\ Len(results) = 2
    /\ frames = <<>>
    /\ objs[results[1].value].rooms = 4
    /\ objs[results[2].value].rooms = 3
    /\ objs[results[2].value].roof

C19_Step ==
    /\ \A self \in ObjIds :
          Clone(self) =>
              LET c == results'[1].value
              IN  /\ c \notin ObjIds
                  /\ c \in DOMAIN objs'
                  /\ objs'[c].cls = objs[self].cls
                  /\ \A f \in Fields(self) : objs'[c][f] = objs[self][f]
                  /\ DOMAIN objs'[c] = DOMAIN objs[self]
                  /\ \A i \in ObjIds : objs'[i] = objs[i]
    /\ \A o \in ObjIds :
          (\E f \in Fields(o), v \in Coords : SetField(o, f, v)) =>
              \A i \in DOMAIN objs' \ {o} : objs'[i] = objs[i]

\* C19: clone of a Circle or Rectangle returns an object that did not exist
\* before, of the receiver's class, with the receiver's radius (or height
\* and width), x and y; the call leaves the receiver and every other object
\* as they were; an assignment to a field of one object afterwards changes
\* no other object, so neither a clone nor its original follows the other.
C19_CloneIsCopy == [][C19_Step]_vars

\* a Rectangle was cloned, then the clone's height was changed: the original
\* still has the fields it had when clone was called
C19_Witness ==
    /\ results # <<>>
    /\ objs[results[1].self].cls = "Rectangle"
    /\ objs[results[1].self] = results[1].before
    /\ objs[results[1].self].height # objs[results[1].self].width
    /\ objs[results[1].value].height # objs[results[1].self].height
    /\ objs[results[1].value].width = objs[results[1].self].width

C21_Step ==
    /\ \A k \in 1..Len(frames) : objs'[frames[k].color] = objs[frames[k].color]
    /\ operate_return =>
          /\ FTop.color_1 # FTop.color
          /\ objs'[FTop.color_1].cls = "Color"
          /\ Len(frames) = 1 =>
                /\ results'[1].value # results'[1].color
                /\ objs'[results'[1].color] = objs[DriverColor]

\* C21: while an operate call is running, at any depth of a chain of
\* MakeReder and MakeGreener operators, no step changes the r, g or b of the
\* Color that call was given, so the input is the same at the return as at
\* the call; the Color a call returns is another object than its input.
C21_InputUntouched == [][C21_Step]_vars

\* operate has returned from a chain with a MakeReder and a MakeGreener
\* link: the returned object is redder and greener than the input
C21_Witness ==
    /\ results # <<>>
    /\ LinksOf(results[1].self, "MakeReder") >= 1
    /\ LinksOf(results[1].self, "MakeGreener") >= 1
    /\ results[1].value # results[1].color
    /\ objs[results[1].value].r > objs[results[1].color].r
    /\ objs[results[1].value].g > objs[results[1].color].g

====
